---- MODULE Spec2Model ----
(***************************************************************************)
(* A model of the auction package: construction of an auction from a list  *)
(* of NewBidder values (auction.go, bidder.go), the in-memory store with   *)
(* its reader/writer lock, PlaceBid and DetermineWinner run by concurrent  *)
(* callers.                                                                *)
(*                                                                         *)
(* Amounts (float64 in the source) are modelled as integers: all the       *)
(* arithmetic of the package is one addition and comparisons.  UUIDs are   *)
(* small integers, NilID being uuid.Nil.  time.Time values are integers,   *)
(* ZeroTime being time.Time{}; time.Now() reads the variable clock, which  *)
(* the environment advances (two calls of time.Now() may return the same   *)
(* instant).                                                               *)
(***************************************************************************)
EXTENDS Integers, Sequences, FiniteSets, TLC

\* ------------------------------------------------------------------ bounds

\* Concurrent callers (goroutines) using one auction.
NumCallers == 2
\* Bidders of the auctions the concurrent specification runs.
NumBidders == 2
\* Longest bidder list handed to NewAuction in the construction specification.
MaxBidders == 2
\* The clock stops advancing here (later calls of time.Now() return MaxClock).
MaxClock == 2
\* The MaxBid of the bidders of the auctions the concurrent specification runs.
MaxCap == 4

NilID == 0
ZeroTime == 0

Callers == 1..NumCallers

\* Every ID of the model: uuid.Nil and the IDs of the inputs.
AllIDs == 0..3

\* ------------------------------------------------------------------- state

VARIABLES
    input,      \* NewAuctionConfig.Bidders: the list handed to NewAuction
    auction,    \* "none" before NewAuction, then "ok" (an *Auction) or "failed" (nil)
    newErr,     \* the error NewAuction returned
    bidders,    \* InMemoryStore.bidders: the map, a function from IDs to records
    readers,    \* callers holding the store's RWMutex for reading
    writer,     \* the caller holding the RWMutex for writing, or 0
    clock,      \* what time.Now() returns
    pc,         \* each caller's position
    arg,        \* each caller's PlaceBid argument
    bdr,        \* PlaceBid's local variable bidder (auction.go:65), per caller
    snap,       \* DetermineWinner's local bdrs (auction.go:108), per caller
    ret,        \* what each caller's last call returned
    succ,       \* history: successful PlaceBid calls per bidder ID
    exceeded,   \* history: the IDs for which a PlaceBid has returned ErrExceededMaxBid
    late        \* history: callers whose PlaceBid in flight started with its ID in exceeded

vars == <<input, auction, newErr, bidders, readers, writer, clock,
          pc, arg, bdr, snap, ret, succ, exceeded, late>>

\* --------------------------------------------------------- records, errors

ZeroBidder ==
    [ID |-> NilID, Name |-> "", StartingBid |-> 0, MaxBid |-> 0,
     CurrentBid |-> 0, AutoIncrement |-> 0, LastBidTime |-> ZeroTime]

NoErr == [kind |-> "nil", id |-> NilID, why |-> ""]

Err(kind, id, why) == [kind |-> kind, id |-> id, why |-> why]

EmptyMap == [i \in {} |-> ZeroBidder]

\* ------------------------------------------------------------ construction

validateBidder(b) ==
    IF b.StartingBid <= 0 THEN "starting bid must be positive"
    ELSE IF b.MaxBid < b.StartingBid THEN "max bid must be greater than or equal to starting bid"
    ELSE IF b.AutoIncrement <= 0 THEN "auto-increment must be positive"
    ELSE ""

\* Mutant of validateLoop: the data of a bidder is checked before its ID.
RECURSIVE validateLoop_dataFirst(_, _, _)
validateLoop_dataFirst(bs, i, seenIDs) ==
    IF i > Len(bs) THEN NoErr
    ELSE IF validateBidder(bs[i]) # ""
         THEN Err("invalid bidder data", bs[i].ID, validateBidder(bs[i]))
    ELSE IF bs[i].ID \in seenIDs THEN Err("duplicate bidder ID", bs[i].ID, "")
    ELSE validateLoop_dataFirst(bs, i + 1, seenIDs \cup {bs[i].ID})

\* The loop of validateAuctionData from its i-th bidder on, seenIDs being the
\* IDs of the bidders before it.
RECURSIVE validateLoop(_, _, _)
validateLoop(bs, i, seenIDs) ==
    IF i > Len(bs) THEN NoErr
    ELSE IF bs[i].ID \in seenIDs THEN Err("duplicate bidder ID", bs[i].ID, "")
    ELSE IF validateBidder(bs[i]) # ""
         THEN Err("invalid bidder data", bs[i].ID, validateBidder(bs[i]))
    ELSE validateLoop(bs, i + 1, seenIDs \cup {bs[i].ID})

validateAuctionData(bs) ==
    IF Len(bs) <= 1 THEN Err("auction must have at least two bidders", NilID, "")
    ELSE validateLoop(bs, 1, {})

\* Mutant of toNewBidder: the current bid is seeded with the starting bid.
toNewBidder_seedStart(b) ==
    [ID |-> b.ID, Name |-> b.Name, StartingBid |-> b.StartingBid,
     MaxBid |-> b.MaxBid, CurrentBid |-> b.StartingBid,
     AutoIncrement |-> b.AutoIncrement, LastBidTime |-> b.LastBidTime]

toNewBidder(b) ==
    [ID |-> b.ID, Name |-> b.Name, StartingBid |-> b.StartingBid,
     MaxBid |-> b.MaxBid, CurrentBid |-> b.CurrentBid,
     AutoIncrement |-> b.AutoIncrement, LastBidTime |-> b.LastBidTime]

toNewBidders(bs) == [i \in 1..Len(bs) |-> toNewBidder(bs[i])]

\* A map with key k set to v (Go's m[k] = v: insert or overwrite).
MapSet(m, k, v) == [x \in DOMAIN m \cup {k} |-> IF x = k THEN v ELSE m[x]]

\* InMemoryStore.AddBidder on map m: the error and the map afterwards.
AddBidder(m, b) ==
    IF b.ID \in DOMAIN m
    THEN [err |-> Err("bidder already exists", b.ID, ""), m |-> m]
    ELSE [err |-> NoErr, m |-> MapSet(m, b.ID, b)]

\* The loop of NewAuction over bdrs from its i-th element on, m being the
\* store so far: the first AddBidder error ends it.
RECURSIVE addLoop(_, _, _)
addLoop(bdrs, i, m) ==
    IF i > Len(bdrs) THEN [err |-> NoErr, m |-> m]
    ELSE IF AddBidder(m, bdrs[i]).err # NoErr
         THEN [err |-> Err("failed to add bidder", bdrs[i].ID, ""), m |-> AddBidder(m, bdrs[i]).m]
    ELSE addLoop(bdrs, i + 1, AddBidder(m, bdrs[i]).m)

\* NewAuction's result: its error and, when that is nil, the store of the
\* auction it returns (on an error it returns nil: no store is handed out).
NewAuctionOf(bs) ==
    IF validateAuctionData(bs) # NoErr
    THEN [err |-> validateAuctionData(bs), ok |-> FALSE, store |-> EmptyMap]
    ELSE IF addLoop(toNewBidders(bs), 1, EmptyMap).err # NoErr
         THEN [err |-> addLoop(toNewBidders(bs), 1, EmptyMap).err, ok |-> FALSE, store |-> EmptyMap]
    ELSE [err |-> NoErr, ok |-> TRUE, store |-> addLoop(toNewBidders(bs), 1, EmptyMap).m]

NewAuction ==
    /\ auction = "none"
    /\ auction' = IF NewAuctionOf(input).ok THEN "ok" ELSE "failed"
    /\ newErr' = NewAuctionOf(input).err
    /\ bidders' = NewAuctionOf(input).store
    /\ UNCHANGED <<input, readers, writer, clock, pc, arg, bdr, snap, ret, succ, exceeded, late>>

\* ------------------------------------------------------------------ inputs

\* The NewBidder values of the construction specification.
NewIDs == 1..3
NewAmounts == 0..1
NewBidderSpace ==
    [ID : NewIDs, Name : {"", "n"}, StartingBid : NewAmounts,
     MaxBid : NewAmounts, CurrentBid : {0, 2},
     AutoIncrement : NewAmounts, LastBidTime : {ZeroTime}]

NewInputs == UNION {[1..n -> NewBidderSpace] : n \in 0..MaxBidders}

NoRet == [op |-> "", err |-> "", winner |-> [ID |-> NilID, Name |-> ""]]

InitRest ==
    /\ auction = "none"
    /\ newErr = NoErr
    /\ bidders = EmptyMap
    /\ readers = {}
    /\ writer = 0
    /\ clock = 1
    /\ pc = [c \in Callers |-> "idle"]
    /\ arg = [c \in Callers |-> NilID]
    /\ bdr = [c \in Callers |-> ZeroBidder]
    /\ snap = [c \in Callers |-> <<>>]
    /\ ret = [c \in Callers |-> NoRet]
    /\ succ = [i \in AllIDs |-> 0]
    /\ exceeded = {}
    /\ late = {}

InitNew == input \in NewInputs /\ InitRest

NextNew == NewAuction

\* Construction alone, over every list of up to MaxBidders NewBidder values.
SpecNew == InitNew /\ [][NextNew]_vars

\* -------------------------------------------------------------- the store
\* InMemoryStore embeds one sync.RWMutex.  Every operation takes it on entry
\* and releases it by a deferred call on return: one step acquires the lock,
\* the next runs the body and releases it.

CanRLock == writer = 0

\* Mutant of CanLock: the write lock is granted while readers hold the lock.
CanLock_overReaders == writer = 0

CanLock == writer = 0 /\ readers = {}

\* GetBidder's body on map m: the copy *bdr and the error.
GetBidder(m, id) ==
    IF id \notin DOMAIN m
    THEN [bidder |-> ZeroBidder, err |-> "bidder not found"]
    ELSE [bidder |-> m[id], err |-> "nil"]

\* UpdateBidder's body on map m: the map afterwards.
UpdateBidder(m, b) == MapSet(m, b.ID, b)

\* The orders in which a range over the map may visit its keys.
Orders(m) ==
    {f \in [1..Cardinality(DOMAIN m) -> DOMAIN m] :
        \A i, j \in 1..Cardinality(DOMAIN m) : f[i] = f[j] => i = j}

\* ListBidders' body on map m: the slices of copies it may return.
ListBidders(m) == {[i \in DOMAIN f |-> m[f[i]]] : f \in Orders(m)}

\* ---------------------------------------------------------------- PlaceBid

ErrExceededMaxBid == "exceeded maximum bid"

\* Mutant of bidCheck: a bid equal to the maximum is refused.
bidCheck_atMax(b) ==
    IF b.CurrentBid + b.AutoIncrement < b.StartingBid THEN "less than starting bid"
    ELSE IF b.CurrentBid + b.AutoIncrement >= b.MaxBid THEN ErrExceededMaxBid
    ELSE IF b.CurrentBid + b.AutoIncrement <= b.CurrentBid THEN "less than or equal to current bid"
    ELSE "nil"

\* The validations of PlaceBid on the record b it read: the error, "nil" for none.
bidCheck(b) ==
    IF b.CurrentBid + b.AutoIncrement < b.StartingBid THEN "less than starting bid"
    ELSE IF b.CurrentBid + b.AutoIncrement > b.MaxBid THEN ErrExceededMaxBid
    ELSE IF b.CurrentBid + b.AutoIncrement <= b.CurrentBid THEN "less than or equal to current bid"
    ELSE "nil"

\* Mutant of bidUpdate: the bid stored is the one that was read.
bidUpdate_sameBid(b, now) == [b EXCEPT !.LastBidTime = now]

\* Mutant of bidUpdate: the accepted bid becomes the bidder's floor as well.
bidUpdate_raisesFloor(b, now) ==
    [b EXCEPT !.CurrentBid = b.CurrentBid + b.AutoIncrement,
              !.StartingBid = b.CurrentBid + b.AutoIncrement,
              !.LastBidTime = now]

\* Mutant of bidUpdate: the bid is counted from the starting bid.
bidUpdate_fromStart(b, now) ==
    [b EXCEPT !.CurrentBid = b.StartingBid + b.AutoIncrement, !.LastBidTime = now]

\* The record PlaceBid hands to UpdateBidder, now being time.Now().
bidUpdate(b, now) ==
    [b EXCEPT !.CurrentBid = b.CurrentBid + b.AutoIncrement, !.LastBidTime = now]

\* A call returns: its frame (arg, bidder, bdrs) is gone.
Returns(c, op, err, w) ==
    /\ pc' = [pc EXCEPT ![c] = "idle"]
    /\ ret' = [ret EXCEPT ![c] = [op |-> op, err |-> err, winner |-> w]]
    /\ arg' = [arg EXCEPT ![c] = NilID]
    /\ bdr' = [bdr EXCEPT ![c] = ZeroBidder]
    /\ snap' = [snap EXCEPT ![c] = <<>>]
    /\ exceeded' = IF op = "PlaceBid" /\ err = ErrExceededMaxBid
                   THEN exceeded \cup {arg[c]} ELSE exceeded
    /\ late' = late \ {c}

NoWinnerValue == [ID |-> NilID, Name |-> ""]

\* A caller calls a.PlaceBid(id).
PlaceBidCall(c, id) ==
    /\ auction = "ok"
    /\ pc[c] = "idle"
    /\ pc' = [pc EXCEPT ![c] = "get_rlock"]
    /\ arg' = [arg EXCEPT ![c] = id]
    /\ ret' = [ret EXCEPT ![c] = NoRet]
    /\ late' = IF id \in exceeded THEN late \cup {c} ELSE late
    /\ UNCHANGED <<input, auction, newErr, bidders, readers, writer, clock, bdr, snap, succ, exceeded>>

\* store.RLock() of GetBidder.
GetBidderRLock(c) ==
    /\ pc[c] = "get_rlock"
    /\ CanRLock
    /\ readers' = readers \cup {c}
    /\ pc' = [pc EXCEPT ![c] = "get_read"]
    /\ UNCHANGED <<input, auction, newErr, bidders, writer, clock, arg, bdr, snap, ret, succ, exceeded, late>>

\* Mutant of GetBidderRead: the error return leaves the read lock held.
GetBidderRead_keepsLockOnError(c) ==
    /\ pc[c] = "get_read"
    /\ IF GetBidder(bidders, arg[c]).err # "nil"
       THEN /\ Returns(c, "PlaceBid", GetBidder(bidders, arg[c]).err, NoWinnerValue)
            /\ readers' = readers
       ELSE /\ bdr' = [bdr EXCEPT ![c] = GetBidder(bidders, arg[c]).bidder]
            /\ pc' = [pc EXCEPT ![c] = "check"]
            /\ readers' = readers \ {c}
            /\ UNCHANGED <<arg, snap, ret, exceeded, late>>
    /\ UNCHANGED <<input, auction, newErr, bidders, writer, clock, succ>>

\* GetBidder's body and its deferred RUnlock; PlaceBid returns its error.
GetBidderRead(c) ==
    /\ pc[c] = "get_read"
    /\ readers' = readers \ {c}
    /\ IF GetBidder(bidders, arg[c]).err # "nil"
       THEN Returns(c, "PlaceBid", GetBidder(bidders, arg[c]).err, NoWinnerValue)
       ELSE /\ bdr' = [bdr EXCEPT ![c] = GetBidder(bidders, arg[c]).bidder]
            /\ pc' = [pc EXCEPT ![c] = "check"]
            /\ UNCHANGED <<arg, snap, ret, exceeded, late>>
    /\ UNCHANGED <<input, auction, newErr, bidders, writer, clock, succ>>

\* Mutant of PlaceBidCheck: the record GetBidder returned is the stored one,
\* so the assignments of auction.go:88-89 change the store at once.
PlaceBidCheck_inPlace(c) ==
    /\ pc[c] = "check"
    /\ IF bidCheck(bdr[c]) # "nil"
       THEN /\ Returns(c, "PlaceBid", bidCheck(bdr[c]), NoWinnerValue)
            /\ bidders' = bidders
       ELSE /\ bdr' = [bdr EXCEPT ![c] = bidUpdate(bdr[c], clock)]
            /\ bidders' = UpdateBidder(bidders, bidUpdate(bdr[c], clock))
            /\ pc' = [pc EXCEPT ![c] = "upd_lock"]
            /\ UNCHANGED <<arg, snap, ret, exceeded, late>>
    /\ UNCHANGED <<input, auction, newErr, readers, writer, clock, succ>>

\* auction.go:70-89: the validations, and on success the new record.
PlaceBidCheck(c) ==
    /\ pc[c] = "check"
    /\ IF bidCheck(bdr[c]) # "nil"
       THEN Returns(c, "PlaceBid", bidCheck(bdr[c]), NoWinnerValue)
       ELSE /\ bdr' = [bdr EXCEPT ![c] = bidUpdate(bdr[c], clock)]
            /\ pc' = [pc EXCEPT ![c] = "upd_lock"]
            /\ UNCHANGED <<arg, snap, ret, exceeded, late>>
    /\ UNCHANGED <<input, auction, newErr, bidders, readers, writer, clock, succ>>

\* store.Lock() of UpdateBidder.
UpdateBidderLock(c) ==
    /\ pc[c] = "upd_lock"
    /\ CanLock
    /\ writer' = c
    /\ pc' = [pc EXCEPT ![c] = "upd_write"]
    /\ UNCHANGED <<input, auction, newErr, bidders, readers, clock, arg, bdr, snap, ret, succ, exceeded, late>>

\* UpdateBidder's body and its deferred Unlock; PlaceBid returns nil.
UpdateBidderWrite(c) ==
    /\ pc[c] = "upd_write"
    /\ bidders' = UpdateBidder(bidders, bdr[c])
    /\ writer' = 0
    /\ succ' = [succ EXCEPT ![arg[c]] = @ + 1]
    /\ Returns(c, "PlaceBid", "nil", NoWinnerValue)
    /\ UNCHANGED <<input, auction, newErr, readers, clock>>

\* --------------------------------------------------------- DetermineWinner

\* Mutant of isWinner: among equal bids the later one wins.
isWinner_laterWins(currentWinner, bidder) ==
    \/ currentWinner.Name = ""
    \/ bidder.CurrentBid < currentWinner.CurrentBid
    \/ /\ bidder.CurrentBid = currentWinner.CurrentBid
       /\ bidder.LastBidTime > currentWinner.LastBidTime

isWinner(currentWinner, bidder) ==
    \/ currentWinner.Name = ""
    \/ bidder.CurrentBid < currentWinner.CurrentBid
    \/ /\ bidder.CurrentBid = currentWinner.CurrentBid
       /\ bidder.LastBidTime < currentWinner.LastBidTime

\* The loop of DetermineWinner over bdrs from its i-th element on.
RECURSIVE scanWinner(_, _, _)
scanWinner(bdrs, i, wbdr) ==
    IF i > Len(bdrs) THEN wbdr
    ELSE scanWinner(bdrs, i + 1, IF isWinner(wbdr, bdrs[i]) THEN bdrs[i] ELSE wbdr)

\* Mutant of DetermineWinnerOf: the name of the bidder found is not looked at.
DetermineWinnerOf_noNameCheck(bdrs) ==
    [err |-> "nil",
     winner |-> [ID |-> scanWinner(bdrs, 1, ZeroBidder).ID,
                 Name |-> scanWinner(bdrs, 1, ZeroBidder).Name]]

\* DetermineWinner's result on the slice ListBidders returned.
DetermineWinnerOf(bdrs) ==
    IF scanWinner(bdrs, 1, ZeroBidder).Name = ""
    THEN [err |-> "no winner", winner |-> NoWinnerValue]
    ELSE [err |-> "nil",
          winner |-> [ID |-> scanWinner(bdrs, 1, ZeroBidder).ID,
                      Name |-> scanWinner(bdrs, 1, ZeroBidder).Name]]

\* A caller calls a.DetermineWinner().
DetermineWinnerCall(c) ==
    /\ auction = "ok"
    /\ pc[c] = "idle"
    /\ pc' = [pc EXCEPT ![c] = "list_rlock"]
    /\ ret' = [ret EXCEPT ![c] = NoRet]
    /\ UNCHANGED <<input, auction, newErr, bidders, readers, writer, clock, arg, bdr, snap, succ, exceeded, late>>

\* store.RLock() of ListBidders.
ListBiddersRLock(c) ==
    /\ pc[c] = "list_rlock"
    /\ CanRLock
    /\ readers' = readers \cup {c}
    /\ pc' = [pc EXCEPT ![c] = "list_read"]
    /\ UNCHANGED <<input, auction, newErr, bidders, writer, clock, arg, bdr, snap, ret, succ, exceeded, late>>

\* ListBidders' body and its deferred RUnlock.
ListBiddersRead(c) ==
    /\ pc[c] = "list_read"
    /\ readers' = readers \ {c}
    /\ \E l \in ListBidders(bidders) : snap' = [snap EXCEPT ![c] = l]
    /\ pc' = [pc EXCEPT ![c] = "scan"]
    /\ UNCHANGED <<input, auction, newErr, bidders, writer, clock, arg, bdr, ret, succ, exceeded, late>>

\* Mutant of DetermineWinnerScan: the scan reads the records of the store as
\* they are when it runs, not the copies ListBidders made.
DetermineWinnerScan_liveRecords(c) ==
    /\ pc[c] = "scan"
    /\ \E l \in ListBidders(bidders) :
        Returns(c, "DetermineWinner", DetermineWinnerOf(l).err, DetermineWinnerOf(l).winner)
    /\ UNCHANGED <<input, auction, newErr, bidders, readers, writer, clock, succ>>

\* auction.go:113-131: the scan of the snapshot, outside the lock.
DetermineWinnerScan(c) ==
    /\ pc[c] = "scan"
    /\ Returns(c, "DetermineWinner", DetermineWinnerOf(snap[c]).err, DetermineWinnerOf(snap[c]).winner)
    /\ UNCHANGED <<input, auction, newErr, bidders, readers, writer, clock, succ>>

\* Time passes.
Tick ==
    /\ clock < MaxClock
    /\ clock' = clock + 1
    /\ UNCHANGED <<input, auction, newErr, bidders, readers, writer, pc, arg, bdr, snap, ret, succ, exceeded, late>>

\* ----------------------------------------------------- the running auction

\* The StartingBid of the bidders of the running specifications' inputs.
RunStart == 2
RunNames == <<"A", "B", "C", "D">>

\* The i-th NewBidder of a running specification's input: names, curs and
\* incs are the Name, CurrentBid and AutoIncrement values it may carry.
RunBidderSpace(i, names, curs, incs) ==
    [ID : {i}, Name : names, StartingBid : {RunStart},
     MaxBid : {MaxCap}, CurrentBid : curs,
     AutoIncrement : incs, LastBidTime : {ZeroTime}]

\* The lists of NumBidders bidders whose i-th bidder is of spaces[i].
InputsOf(spaces) ==
    {bs \in [1..NumBidders -> UNION {spaces[i] : i \in 1..NumBidders}] :
        \A i \in 1..NumBidders : bs[i] \in spaces[i]}

\* CurrentBid as the caller seeds it: zero (never set), the starting bid (as
\* the tests' createBidder does), or a value above MaxBid.
SeedBids == {0, RunStart, MaxCap + 1}

\* The IDs callers pass to PlaceBid: the bidders' and one that is unknown.
CallIDs == {NilID} \cup {input[i].ID : i \in 1..Len(input)}

\* The ID caller c bids for when every caller has a bidder of its own.
OwnIDs(c) == {input[i].ID : i \in {c} \cap (1..Len(input))}

\* --- one caller, any bidder list

SeqSpace(i) == RunBidderSpace(i, {"", RunNames[i]}, SeedBids, {1, 2})

InitSeq == input \in InputsOf([i \in 1..NumBidders |-> SeqSpace(i)]) /\ InitRest

NextSeq ==
    \/ NewAuction
    \/ Tick
    \/ \E c \in {1} :
        \/ \E id \in CallIDs : PlaceBidCall(c, id)
        \/ GetBidderRLock(c)
        \/ GetBidderRead(c)
        \/ PlaceBidCheck(c)
        \/ UpdateBidderLock(c)
        \/ UpdateBidderWrite(c)
        \/ DetermineWinnerCall(c)
        \/ ListBiddersRLock(c)
        \/ ListBiddersRead(c)
        \/ DetermineWinnerScan(c)

\* An auction used by one caller.
SpecSeq == InitSeq /\ [][NextSeq]_vars

\* --- concurrent callers, one per bidder (as in TestConcurrencyInAuction)

OwnSpace(i) == RunBidderSpace(i, {RunNames[i]}, SeedBids, {1, 2})

InitOwn == input \in InputsOf([i \in 1..NumBidders |-> OwnSpace(i)]) /\ InitRest

NextOwn ==
    \/ NewAuction
    \/ Tick
    \/ \E c \in Callers :
        \/ \E id \in OwnIDs(c) : PlaceBidCall(c, id)
        \/ GetBidderRLock(c)
        \/ GetBidderRead(c)
        \/ PlaceBidCheck(c)
        \/ UpdateBidderLock(c)
        \/ UpdateBidderWrite(c)
        \/ DetermineWinnerCall(c)
        \/ ListBiddersRLock(c)
        \/ ListBiddersRead(c)
        \/ DetermineWinnerScan(c)

\* An auction whose bidders are each bid for by a caller of their own.
SpecOwn == InitOwn /\ [][NextOwn]_vars

\* --- concurrent callers, each bidding for any bidder

RunSpace(i) ==
    IF i = 1 THEN RunBidderSpace(i, {"", RunNames[i]}, SeedBids, {1})
    ELSE RunBidderSpace(i, {RunNames[i]}, {RunStart}, {1})

Init == input \in InputsOf([i \in 1..NumBidders |-> RunSpace(i)]) /\ InitRest

Next ==
    \/ NewAuction
    \/ Tick
    \/ \E c \in Callers :
        \/ \E id \in CallIDs : PlaceBidCall(c, id)
        \/ GetBidderRLock(c)
        \/ GetBidderRead(c)
        \/ PlaceBidCheck(c)
        \/ UpdateBidderLock(c)
        \/ UpdateBidderWrite(c)
        \/ DetermineWinnerCall(c)
        \/ ListBiddersRLock(c)
        \/ ListBiddersRead(c)
        \/ DetermineWinnerScan(c)

\* An auction used by NumCallers concurrent callers.
Spec == Init /\ [][Next]_vars

\* --- scheduling
\* A goroutine that can take a step of its own takes it (the Go scheduler
\* preempts); a goroutine blocked in Lock or RLock gets the lock when it is
\* free again and again (a pending Lock of sync.RWMutex keeps new readers
\* out, and readers blocked by a writer go first when it unlocks).  Nothing
\* obliges a caller to start a call, nor the clock to advance.
Fairness ==
    \A c \in Callers :
        /\ WF_vars(GetBidderRead(c))
        /\ WF_vars(PlaceBidCheck(c))
        /\ WF_vars(UpdateBidderWrite(c))
        /\ WF_vars(ListBiddersRead(c))
        /\ WF_vars(DetermineWinnerScan(c))
        /\ SF_vars(GetBidderRLock(c))
        /\ SF_vars(UpdateBidderLock(c))
        /\ SF_vars(ListBiddersRLock(c))

\* --- concurrent callers that each bid in a loop until a call fails

\* The loop of the tests' goroutines: PlaceBid is called again as long as
\* the previous call returned no error.
LoopCall(c, id) ==
    /\ ret[c].err \in {"", "nil"}
    /\ PlaceBidCall(c, id)

\* The IDs the loops bid for: any stored bidder's.
LoopIDs == {input[i].ID : i \in 1..Len(input)}

InitLoop == input \in InputsOf([i \in 1..NumBidders |-> RunSpace(i)]) /\ InitRest

NextLoop ==
    \/ NewAuction
    \/ Tick
    \/ \E c \in Callers :
        \/ \E id \in LoopIDs : LoopCall(c, id)
        \/ GetBidderRLock(c)
        \/ GetBidderRead(c)
        \/ PlaceBidCheck(c)
        \/ UpdateBidderLock(c)
        \/ UpdateBidderWrite(c)

\* The loops go on: a caller whose call returned nil calls again.
LoopFairness ==
    \A c \in Callers :
        /\ WF_vars(\E id \in LoopIDs : LoopCall(c, id))
        /\ WF_vars(GetBidderRead(c))
        /\ WF_vars(PlaceBidCheck(c))
        /\ WF_vars(UpdateBidderWrite(c))
        /\ SF_vars(GetBidderRLock(c))
        /\ SF_vars(UpdateBidderLock(c))

\* The bidding loops under fair scheduling.
SpecLoop == InitLoop /\ [][NextLoop]_vars /\ LoopFairness

\* --- concurrent callers sharing one bidder, under fair scheduling

LiveSpace(i) == RunBidderSpace(i, {RunNames[i]}, {RunStart}, {1})

\* The IDs the callers pass to PlaceBid: the first bidder's and an unknown one.
LiveIDs == {NilID} \cup {input[i].ID : i \in {1} \cap (1..Len(input))}

InitFair == input \in InputsOf([i \in 1..NumBidders |-> LiveSpace(i)]) /\ InitRest

NextFair ==
    \/ NewAuction
    \/ Tick
    \/ \E c \in Callers :
        \/ \E id \in LiveIDs : PlaceBidCall(c, id)
        \/ GetBidderRLock(c)
        \/ GetBidderRead(c)
        \/ PlaceBidCheck(c)
        \/ UpdateBidderLock(c)
        \/ UpdateBidderWrite(c)
        \/ DetermineWinnerCall(c)
        \/ ListBiddersRLock(c)
        \/ ListBiddersRead(c)
        \/ DetermineWinnerScan(c)

\* The concurrent callers under fair scheduling.
SpecFair == InitFair /\ [][NextFair]_vars /\ Fairness

\* ================================================================== claims

ValidBidder(b) == b.StartingBid > 0 /\ b.MaxBid >= b.StartingBid /\ b.AutoIncrement > 0

UniqueIDs(bs) == \A i, j \in 1..Len(bs) : bs[i].ID = bs[j].ID => i = j

ValidInput(bs) ==
    Len(bs) >= 2 /\ UniqueIDs(bs) /\ \A i \in 1..Len(bs) : ValidBidder(bs[i])

\* C1: NewAuction succeeds exactly when the input has at least two bidders,
\* unique IDs and valid data in every bidder; the store then holds exactly
\* one record per input bidder, every field equal to the input's, and no
\* AddBidder failed.
C1_ConstructionSucceeds ==
    auction # "none" =>
        /\ (auction = "ok") <=> ValidInput(input)
        /\ newErr.kind # "failed to add bidder"
        /\ auction = "ok" =>
            /\ newErr = NoErr
            /\ DOMAIN bidders = {input[i].ID : i \in 1..Len(input)}
            /\ Cardinality(DOMAIN bidders) = Len(input)
            /\ \A i \in 1..Len(input) :
                /\ bidders[input[i].ID].ID = input[i].ID
                /\ bidders[input[i].ID].Name = input[i].Name
                /\ bidders[input[i].ID].StartingBid = input[i].StartingBid
                /\ bidders[input[i].ID].MaxBid = input[i].MaxBid
                /\ bidders[input[i].ID].CurrentBid = input[i].CurrentBid
                /\ bidders[input[i].ID].AutoIncrement = input[i].AutoIncrement
                /\ bidders[input[i].ID].LastBidTime = input[i].LastBidTime

\* An accepted input whose first bidder carries a current bid above its
\* maximum and no name.
C1_Witness ==
    /\ auction = "ok"
    /\ Len(input) = 2
    /\ input[1].CurrentBid > input[1].MaxBid
    /\ input[1].Name = ""
    /\ input[2].CurrentBid = 0

\* Bidder i repeats an earlier ID or has invalid data.
Offends(bs, i) == (\E j \in 1..(i - 1) : bs[j].ID = bs[i].ID) \/ ~ValidBidder(bs[i])

FirstOffender(bs) ==
    CHOOSE i \in 1..Len(bs) : Offends(bs, i) /\ \A j \in 1..(i - 1) : ~Offends(bs, j)

\* The reason why is one that holds of bidder b.
ReasonHolds(why, b) ==
    \/ why = "starting bid must be positive" /\ b.StartingBid <= 0
    \/ why = "max bid must be greater than or equal to starting bid" /\ b.MaxBid < b.StartingBid
    \/ why = "auto-increment must be positive" /\ b.AutoIncrement <= 0

\* C2: NewAuction fails and hands out no store when the input has fewer than
\* two bidders, a repeated ID or a bidder with invalid data; with two or more
\* bidders the error is that of the first bidder, in input order, that repeats
\* an earlier ID or has invalid data, the repeat being reported when both hold.
C2_ConstructionFails ==
    (auction # "none" /\ ~ValidInput(input)) =>
        /\ auction = "failed"
        /\ bidders = EmptyMap
        /\ newErr # NoErr
        /\ Len(input) <= 1 => newErr.kind = "auction must have at least two bidders"
        /\ Len(input) >= 2 =>
            /\ newErr.id = input[FirstOffender(input)].ID
            /\ IF \E j \in 1..(FirstOffender(input) - 1) : input[j].ID = input[FirstOffender(input)].ID
               THEN newErr.kind = "duplicate bidder ID"
               ELSE /\ newErr.kind = "invalid bidder data"
                    /\ ReasonHolds(newErr.why, input[FirstOffender(input)])

\* A rejected input whose second bidder both repeats the first one's ID and
\* has invalid data: the repeat is what is reported.
C2_Witness ==
    /\ auction = "failed"
    /\ Len(input) = 2
    /\ ValidBidder(input[1])
    /\ input[2].ID = input[1].ID
    /\ input[2].MaxBid < input[2].StartingBid
    /\ newErr.kind = "duplicate bidder ID"

\* The input bidder whose ID is b: what the store was seeded with.
SeedOf(b) == input[CHOOSE i \in 1..Len(input) : input[i].ID = b]

NextBid(r) == r.CurrentBid + r.AutoIncrement

C3_Step ==
    \A c \in {x \in Callers : pc[x] # "idle"} : \A b \in DOMAIN bidders :
        /\ bidders'[b].CurrentBid # bidders[b].CurrentBid =>
            /\ pc[c] = "upd_write" /\ arg[c] = b
            /\ ret'[c].err = "nil"
        /\ (pc[c] = "upd_write" /\ arg[c] = b /\ pc'[c] = "idle") =>
            /\ bidders'[b].CurrentBid = NextBid(bidders[b])
            /\ bidders'[b].CurrentBid > bidders[b].CurrentBid
        /\ (pc[c] = "check" /\ arg[c] = b /\ pc'[c] # "check") =>
            (NextBid(bidders[b]) > bidders[b].MaxBid
                <=> (pc'[c] = "idle" /\ ret'[c].err = ErrExceededMaxBid))
        /\ NextBid(bidders[b]) > bidders[b].MaxBid =>
            /\ bidders'[b].CurrentBid = bidders[b].CurrentBid
            /\ NextBid(bidders'[b]) > bidders'[b].MaxBid

\* C3: when a single caller calls PlaceBid repeatedly, every successful call
\* stores the bidder's previous current bid plus its auto-increment, a
\* strictly larger value; a call made when current bid plus auto-increment
\* exceeds the maximum fails with ExceededMaxBid (and no other call does),
\* and from then on that stays so and the stored current bid no longer
\* changes.
C3_SingleCallerSequence ==
    [][auction = "ok" =>
        /\ C3_Step
        /\ (\A x \in Callers : pc[x] = "idle") => bidders' = bidders]_vars

\* A bidder was bid up twice and the next call for it failed with
\* ExceededMaxBid.
C3_Witness ==
    \E b \in DOMAIN bidders :
        /\ succ[b] = 2
        /\ ret[1].op = "PlaceBid"
        /\ ret[1].err = ErrExceededMaxBid
        /\ NextBid(bidders[b]) > bidders[b].MaxBid
        /\ bidders[b].CurrentBid = SeedOf(b).CurrentBid + 2 * SeedOf(b).AutoIncrement

\* C4: in every state of an accepted auction every stored bidder has
\* CurrentBid <= MaxBid.
C4_CurrentBidWithinMax ==
    auction = "ok" => \A b \in DOMAIN bidders : bidders[b].CurrentBid <= bidders[b].MaxBid

\* C5: no step changes a stored CurrentBid to a smaller value.
C5_CurrentBidMonotonic ==
    [][\A b \in DOMAIN bidders \cap DOMAIN bidders' :
          bidders'[b].CurrentBid >= bidders[b].CurrentBid]_vars

AllIdle == \A c \in Callers : pc[c] = "idle"

\* No update is lost: the stored current bid is the seeded one plus the
\* auto-increment per successful PlaceBid.
NoLostUpdate(b) ==
    bidders[b].CurrentBid = SeedOf(b).CurrentBid + SeedOf(b).AutoIncrement * succ[b]

\* C6: with one caller per bidder, no current bid ever exceeds its maximum
\* and, when all callers have finished, no update is lost.
C6_DisjointBidders ==
    auction = "ok" =>
        \A b \in DOMAIN bidders :
            /\ bidders[b].CurrentBid <= bidders[b].MaxBid
            /\ AllIdle => NoLostUpdate(b)

\* The part of C6 that the seeding does not break: with one caller per
\* bidder no update is lost, and no PlaceBid stores a bid above the maximum.
C6_NoLostUpdateOwn ==
    auction = "ok" =>
        \A b \in DOMAIN bidders :
            /\ AllIdle => NoLostUpdate(b)
            /\ succ[b] > 0 => bidders[b].CurrentBid <= bidders[b].MaxBid

\* Caller c's last call was a DetermineWinner, and it has returned.
Determined(c) == pc[c] = "idle" /\ ret[c].op = "DetermineWinner"

AllNamed == \A b \in DOMAIN bidders : bidders[b].Name # ""

Lowest(b) == \A x \in DOMAIN bidders : bidders[b].CurrentBid <= bidders[x].CurrentBid

Highest(b) == \A x \in DOMAIN bidders : bidders[b].CurrentBid >= bidders[x].CurrentBid

\* Among the stored bidders with b's current bid, b's last bid is the earliest.
EarliestOfEqual(b) ==
    \A x \in DOMAIN bidders :
        bidders[x].CurrentBid = bidders[b].CurrentBid
            => bidders[b].LastBidTime <= bidders[x].LastBidTime

\* The winner returned to c is the stored bidder b.
WinnerIs(c, b) ==
    /\ ret[c].err = "nil"
    /\ ret[c].winner.ID = b
    /\ ret[c].winner.Name = bidders[b].Name

C8_HighestBidWins ==
    \A c \in Callers :
        (Determined(c) /\ AllNamed) =>
            \E b \in DOMAIN bidders : WinnerIs(c, b) /\ Highest(b) /\ EarliestOfEqual(b)

\* C9: DetermineWinner fails with NoWinner on an empty store and when no
\* stored bidder has a name; a winner it returns has the ID and the name of
\* one stored bidder, and that name is not empty.
C9_NoWinner ==
    /\ DetermineWinnerOf(<<>>) = [err |-> "no winner", winner |-> NoWinnerValue]
    /\ \A c \in Callers :
        Determined(c) =>
            /\ ret[c].err \in {"nil", "no winner"}
            /\ (\A b \in DOMAIN bidders : bidders[b].Name = "") => ret[c].err = "no winner"
            /\ ret[c].err = "no winner" => ret[c].winner = NoWinnerValue
            /\ ret[c].err = "nil" =>
                \E b \in DOMAIN bidders : WinnerIs(c, b) /\ bidders[b].Name # ""

\* DetermineWinner failed with NoWinner on a store of bidders without names.
C9_Witness ==
    \E c \in Callers :
        /\ Determined(c)
        /\ ret[c].err = "no winner"
        /\ DOMAIN bidders # {}
        /\ \A b \in DOMAIN bidders : bidders[b].Name = ""

\* The store is as before but for bidder id, whose record is r.
OnlyStored(id, r) ==
    /\ DOMAIN bidders' = DOMAIN bidders \cup {id}
    /\ bidders'[id] = r
    /\ \A x \in DOMAIN bidders \ {id} : bidders'[x] = bidders[x]

\* Caller c's call returns err in this step.
ReturnsErr(c, err) == pc'[c] = "idle" /\ ret'[c] = [op |-> "PlaceBid", err |-> err, winner |-> NoWinnerValue]

C10_Step(c) ==
    /\ pc[c] = "get_read" =>
        /\ bidders' = bidders
        /\ IF arg[c] \notin DOMAIN bidders
           THEN ReturnsErr(c, "bidder not found")
           ELSE pc'[c] = "check" /\ bdr'[c] = bidders[arg[c]]
    /\ pc[c] = "check" =>
        /\ bidders' = bidders
        /\ IF NextBid(bdr[c]) < bdr[c].StartingBid THEN ReturnsErr(c, "less than starting bid")
           ELSE IF NextBid(bdr[c]) > bdr[c].MaxBid THEN ReturnsErr(c, ErrExceededMaxBid)
           ELSE IF NextBid(bdr[c]) <= bdr[c].CurrentBid THEN ReturnsErr(c, "less than or equal to current bid")
           ELSE /\ pc'[c] = "upd_lock"
                /\ bdr'[c] = [bdr[c] EXCEPT !.CurrentBid = NextBid(bdr[c]), !.LastBidTime = clock]
    /\ pc[c] = "upd_lock" => bidders' = bidders /\ pc'[c] = "upd_write" /\ bdr'[c] = bdr[c]
    /\ pc[c] = "upd_write" =>
        /\ ReturnsErr(c, "nil")
        /\ bdr[c].ID = arg[c]
        /\ OnlyStored(arg[c], bdr[c])
    /\ (ret'[c] # ret[c] /\ ret'[c].err = ErrExceededMaxBid) =>
        pc[c] = "check" /\ NextBid(bdr[c]) > bdr[c].MaxBid

\* C10: a PlaceBid call ends in BidderNotFound when the ID is not stored;
\* otherwise, on the record it read, in BelowStartingBid, ExceededMaxBid or
\* BidNotIncreasing, tested in that order, or in success, which stores the
\* record read with the bid added and the time of the bid, for that bidder
\* alone.  No step of a failing call changes the store, and ExceededMaxBid
\* is returned only for a bid above the maximum.
C10_PlaceBidOutcomes ==
    [][\A c \in Callers : (pc'[c] # pc[c] /\ pc[c] # "idle") => C10_Step(c)]_vars

\* One caller's PlaceBid failed below the starting bid, the other's was
\* refused at the maximum after a bid of its own was stored.
C10_Witness ==
    \E c, d \in Callers :
        /\ pc[c] = "idle" /\ ret[c].op = "PlaceBid" /\ ret[c].err = "less than starting bid"
        /\ pc[d] = "idle" /\ ret[d].op = "PlaceBid" /\ ret[d].err = ErrExceededMaxBid
        /\ \E b \in DOMAIN bidders :
            succ[b] > 0 /\ bidders[b].CurrentBid = bidders[b].MaxBid /\ bidders[b].LastBidTime > ZeroTime

\* Caller c's PlaceBid succeeds in this step.
Succeeds(c) == pc[c] = "upd_write" /\ pc'[c] = "idle"

\* C11: once a PlaceBid for a bidder has returned ExceededMaxBid, no PlaceBid
\* for that bidder that starts afterwards succeeds and the bidder's stored
\* current bid does not change any more, concurrent calls included.
C11_ExceededIsTerminal ==
    [][\A b \in exceeded :
        /\ bidders'[b].CurrentBid = bidders[b].CurrentBid
        /\ \A c \in late : arg[c] = b => ~Succeeds(c)]_vars

\* C11, second half alone: a PlaceBid started after an ExceededMaxBid for
\* its bidder does not succeed.
C11_NoLateSuccess == [][\A c \in late : ~Succeeds(c)]_vars

\* C12: in an auction NewAuction accepted, no PlaceBid for a stored bidder
\* fails with BelowStartingBid or BidNotIncreasing, whatever CurrentBid the
\* input carried.
C12_OnlyExceededFails ==
    \A c \in Callers :
        ret[c].op = "PlaceBid" =>
            ret[c].err \notin {"less than starting bid", "less than or equal to current bid"}

\* C13: PlaceBid's read-modify-write is atomic against other PlaceBid calls
\* on the same bidder: in every interleaving, once all calls have finished,
\* the bidder's current bid is its seeded value plus the auto-increment
\* times the number of successful calls.
C13_AtomicReadModifyWrite ==
    (auction = "ok" /\ AllIdle) => \A b \in DOMAIN bidders : NoLostUpdate(b)

\* C13, as a step: every successful PlaceBid is computed from the current
\* bid the store holds when it writes.
C13_WritesFromFreshRead ==
    [][\A c \in Callers :
        Succeeds(c) => bidders'[arg[c]].CurrentBid = NextBid(bidders[arg[c]])]_vars

\* The callers inside the critical section of GetBidder or ListBidders, and
\* those inside the one of UpdateBidder.
Reading == {c \in Callers : pc[c] \in {"get_read", "list_read"}}

Writing == {c \in Callers : pc[c] = "upd_write"}

\* C14: the map is accessed only under the store's lock in the right mode:
\* while UpdateBidder is in its critical section no other store operation
\* is in one; GetBidder and ListBidders may overlap each other only.
\* AddBidder runs inside NewAuction, before any caller has the auction.
C14_LockDiscipline ==
    /\ Reading = readers
    /\ Writing = {writer} \ {0}
    /\ Cardinality(Writing) <= 1
    /\ Writing # {} => Reading = {}
    /\ auction # "ok" => (Reading = {} /\ Writing = {} /\ AllIdle)

\* UpdateBidder is in its critical section while another caller waits for
\* the lock.
C14_Witness ==
    \E c, d \in Callers :
        /\ pc[c] = "upd_write"
        /\ writer = c
        /\ pc[d] \in {"get_rlock", "list_rlock", "upd_lock"}

\* GetBidder and ListBidders are in their critical sections together.
C14_ReadersOverlap ==
    \E c, d \in Callers : pc[c] = "get_read" /\ pc[d] = "list_read"

\* The callers blocked in, or about to call, Lock or RLock.
Acquiring == {c \in Callers : pc[c] \in {"get_rlock", "list_rlock", "upd_lock"}}

\* A caller holds the lock only inside a store operation's body: every
\* return path has released it, and no caller acquires it while holding it.
LockReleased ==
    \A c \in Callers :
        /\ pc[c] \in {"idle", "check", "scan"} => (c \notin readers /\ writer # c)
        /\ c \in Acquiring => (c \notin readers /\ writer # c)

\* C15: no deadlock and no indefinite blocking: the lock is released on
\* every return path, never acquired by a caller holding it, and under
\* fair scheduling every PlaceBid and DetermineWinner call that starts
\* returns.
C15_EveryCallReturns ==
    /\ []LockReleased
    /\ \A c \in Callers : (pc[c] # "idle") ~> (pc[c] = "idle")

\* A caller is blocked in Lock by a reader while the other call's GetBidder
\* is about to return its error.
C15_Witness ==
    \E c, d \in Callers :
        /\ pc[c] = "upd_lock"
        /\ pc[d] = "get_read"
        /\ arg[d] \notin DOMAIN bidders
        /\ ~CanLock

\* The slice l holds exactly the records of map m, each once.
SnapshotOf(l, m) ==
    /\ Len(l) = Cardinality(DOMAIN m)
    /\ \A b \in DOMAIN m : \E i \in 1..Len(l) : l[i] = m[b]

C16_Step(c) ==
    /\ (pc[c] = "list_read" /\ pc'[c] # "list_read") =>
        /\ c \in readers
        /\ pc'[c] = "scan"
        /\ SnapshotOf(snap'[c], bidders)
    /\ (pc[c] = "scan" /\ pc'[c] = "scan") => snap'[c] = snap[c]
    /\ (pc[c] = "scan" /\ pc'[c] # "scan") =>
        /\ pc'[c] = "idle"
        /\ ret'[c].op = "DetermineWinner"
        /\ ret'[c].err = DetermineWinnerOf(snap[c]).err
        /\ ret'[c].winner = DetermineWinnerOf(snap[c]).winner

\* C16: the slice ListBidders returns holds the records of the store as
\* they were at one instant, while the read lock was held; updates made
\* later do not alter it, and DetermineWinner's result is the one for that
\* slice, also when PlaceBid calls run concurrently.
C16_SnapshotAtOneInstant == [][\A c \in Callers : C16_Step(c)]_vars

\* A DetermineWinner is about to scan a snapshot that the store, updated
\* since, no longer matches, and whose winner is not the store's.
C16_Witness ==
    \E c \in Callers :
        /\ pc[c] = "scan"
        /\ ~SnapshotOf(snap[c], bidders)
        /\ \A l \in ListBidders(bidders) : DetermineWinnerOf(l) # DetermineWinnerOf(snap[c])

\* C17: the store hands out copies and keeps no record another party
\* changes: PlaceBid's changes to the record it got do not reach the store
\* before UpdateBidder, a stored record changes only when UpdateBidder
\* replaces it with the record it is given, a snapshot taken does not
\* follow the store, and the input of NewAuction is never changed.
C17_CopiesOnly ==
    [][/\ input' = input
       /\ \A c \in Callers :
            /\ (pc[c] = "check" /\ pc'[c] = "upd_lock") =>
                /\ bdr'[c] # bdr[c]
                /\ bidders' = bidders
            /\ (pc[c] = "scan" /\ pc'[c] = "scan") => snap'[c] = snap[c]
       /\ auction = "ok" =>
            \A b \in DOMAIN bidders :
                bidders'[b] # bidders[b] =>
                    \E c \in Callers :
                        /\ pc[c] = "upd_write" /\ pc'[c] = "idle"
                        /\ bdr[c].ID = b
                        /\ bidders'[b] = bdr[c]]_vars

\* PlaceBid has changed the record it got from GetBidder and not yet called
\* UpdateBidder: the store still holds the old record; an earlier bid is
\* stored, and the input still holds the seed.
C17_Witness ==
    \E c \in Callers :
        /\ pc[c] = "upd_lock"
        /\ arg[c] \in DOMAIN bidders
        /\ succ[arg[c]] > 0
        /\ bdr[c].CurrentBid # bidders[arg[c]].CurrentBid
        /\ SeedOf(arg[c]).CurrentBid # bidders[arg[c]].CurrentBid

\* Records r and q differ at most in CurrentBid and LastBidTime.
SameButBid(r, q) ==
    /\ r.ID = q.ID /\ r.Name = q.Name /\ r.StartingBid = q.StartingBid
    /\ r.MaxBid = q.MaxBid /\ r.AutoIncrement = q.AutoIncrement

\* The callers running a PlaceBid, and those running a DetermineWinner.
InPlaceBid == {c \in Callers : pc[c] \in {"get_rlock", "get_read", "check", "upd_lock", "upd_write"}}

InDetermineWinner == {c \in Callers : pc[c] \in {"list_rlock", "list_read", "scan"}}

\* C18: after construction the set of stored IDs never changes, every
\* bidder keeps its constructed ID, name, starting bid, maximum bid and
\* auto-increment, a PlaceBid for bidder X changes X's current bid and last
\* bid time only, and DetermineWinner changes nothing.
C18_Frame ==
    [][auction' = "ok" =>
        /\ DOMAIN bidders' = {input[i].ID : i \in 1..Len(input)}
        /\ \A i \in 1..Len(input) : SameButBid(bidders'[input[i].ID], input[i])
        /\ auction = "ok" =>
            /\ \A c \in InDetermineWinner : pc'[c] # pc[c] => bidders' = bidders
            /\ \A c \in InPlaceBid : pc'[c] # pc[c] =>
                \A b \in DOMAIN bidders \ {arg[c]} : bidders'[b] = bidders[b]
            /\ bidders' # bidders => \E c \in InPlaceBid : pc'[c] # pc[c]]_vars

\* A DetermineWinner has returned on a store where one bidder has been bid
\* up and another is as constructed.
C18_Witness ==
    \E c \in Callers : \E x, y \in DOMAIN bidders :
        /\ Determined(c)
        /\ succ[x] > 0
        /\ bidders[x].CurrentBid # SeedOf(x).CurrentBid
        /\ bidders[x].LastBidTime # ZeroTime
        /\ bidders[y] = toNewBidder(SeedOf(y))

\* No two stored bidders share both current bid and last bid time.
NoFullTie ==
    \A x, y \in DOMAIN bidders :
        (bidders[x].CurrentBid = bidders[y].CurrentBid
            /\ bidders[x].LastBidTime = bidders[y].LastBidTime) => x = y

\* C19: when some stored bidder has a name, DetermineWinner returns a
\* winner, and, no two bidders sharing both current bid and last bid time,
\* the same one for every order in which ListBidders may return the
\* records, also when other stored bidders have no name.
C19_WinnerWheneverNamed ==
    \A c \in Callers :
        (Determined(c) /\ \E b \in DOMAIN bidders : bidders[b].Name # "") =>
            /\ ret[c].err = "nil"
            /\ NoFullTie =>
                \A l \in ListBidders(bidders) :
                    DetermineWinnerOf(l) = [err |-> ret[c].err, winner |-> ret[c].winner]

\* C19, on stores whose bidders all have names: the result does not depend
\* on the order of ListBidders.
C19_OrderIndependentWhenAllNamed ==
    \A c \in Callers :
        (Determined(c) /\ AllNamed /\ NoFullTie) =>
            \A l \in ListBidders(bidders) :
                DetermineWinnerOf(l) = [err |-> ret[c].err, winner |-> ret[c].winner]

\* Caller c's loop has ended: its last PlaceBid returned an error.
Stopped(c) == pc[c] = "idle" /\ ret[c].op = "PlaceBid" /\ ret[c].err # "nil"

AllStopped == \A c \in Callers : Stopped(c)

\* C20: bidding terminates.  Callers that each call PlaceBid in a loop
\* until a call returns an error all receive an error and stop, under every
\* fair interleaving, sharing bidders or not; after that no further bid is
\* stored, so the successful calls are finitely many.  Every successful
\* call stores a bid above the one it read and not above the maximum.
C20_BiddingTerminates ==
    /\ (auction = "ok") ~> AllStopped
    /\ [][AllStopped => (AllStopped' /\ succ' = succ /\ bidders' = bidders)]_vars
    /\ [][\A c \in Callers :
            (pc[c] = "check" /\ pc'[c] = "upd_lock") =>
                /\ bdr'[c].CurrentBid > bdr[c].CurrentBid
                /\ bdr'[c].CurrentBid <= bdr[c].MaxBid]_vars

\* Both loops have ended after bids of both callers on one bidder, one of
\* them lost.
C20_Witness ==
    /\ AllStopped
    /\ \E b \in DOMAIN bidders :
        /\ succ[b] > 2
        /\ ~NoLostUpdate(b)
        /\ \A c \in Callers : ret[c].err = ErrExceededMaxBid

====
